---- MODULE Spec2Model ----
(***************************************************************************)
(* DB::postprocess (src/src/models/db/impl.rs): the binary-segmentation    *)
(* decoder.  Two specifications share the per-contour closure:             *)
(*   Spec      one postprocess call over a batch: the per-image units run  *)
(*             on parallel workers, interleaved at their nested parallel   *)
(*             jobs, and are collected;                                    *)
(*   SpecFold  the contour loop of one image: rayon splits the contour     *)
(*             list into chunks, folds every chunk and reduces the partial *)
(*             accumulators.                                               *)
(* f32 values (pixel probabilities, thresholds, confidences) are           *)
(* fixed-point thousandths; a confidence is the exact ratio num/den.       *)
(* The geometry done by other crates and files (unclip, resample, convex   *)
(* hull, contour tracing) is an input: a contour carries the hull its      *)
(* refinement yields.                                                      *)
(***************************************************************************)
EXTENDS Integers, Sequences, FiniteSets, TLC

VARIABLES
    self,          \* the DB struct: geometry and thresholds fixed by DB::new
    xs,            \* the raw output tensor xs[0] handed to postprocess
    image0s_size,  \* processor.image0s_size: (height, width) per input image
    units,         \* per batch index: the state of the filter_map closure
    order,         \* the indices in the order their units completed
    result,        \* "running" | "ok" | "panic": how postprocess ended
    ys,            \* the collected Vec<Y>
    contours,      \* SpecFold: the contour list of the image
    parts,         \* SpecFold: the chunks rayon split the list into
    built,         \* SpecFold: contours a Polygon was constructed from
    y              \* SpecFold: the image's record, once built

vars == <<self, xs, image0s_size, units, order, result, ys,
          contours, parts, built, y>>

batchVars == <<xs, image0s_size, units, order, result, ys>>
foldVars == <<contours, parts, built, y>>

----------------------------------------------------------------------------
\* Bounds of the model.
MaxBatch == 2
MaxContours == 3

None == [some |-> FALSE]
Some(x) == [some |-> TRUE, val |-> x]

----------------------------------------------------------------------------
\* Option defaults of DB::new, in the model's units.
DefaultSelf ==
    [width |-> 2, height |-> 1, binary_thresh |-> 200,
     min_width |-> 12, min_height |-> 5, confs0 |-> 300]

\* Pixel probabilities and binarization thresholds, in thousandths.
PixelValues == {6, 900}
Thresholds == {5, 200}
ConfThresholds == {300, 500}
ImageSizes == {<<2, 2>>}

----------------------------------------------------------------------------
\* `as u8` on a non-negative float: truncation, saturating at 255.
AsU8(n) == IF n < 0 THEN 0 ELSE IF n > 255 THEN 255 ELSE n

\* The closure of the inner par_iter().map: one pixel to one mask byte.
Binarize(x) ==
    IF x <= self.binary_thresh THEN 0 ELSE AsU8((x * 255) \div 1000)

BinarizeSlice(luma) == [p \in 1..Len(luma) |-> Binarize(luma[p])]

\* find_contours_with_threshold(&mask_im, 1): a byte is foreground when it
\* is strictly greater than the threshold 1.
Foreground(b) == b > 1

\* luma.as_slice(): Some only for a contiguous standard-layout view.
AsSlice(t, idx) == IF t.contiguous THEN Some(t.data[idx]) ELSE None

\* Ops::resize_luma8_u8(&v, width, height, image_width, image_height, ..):
\* fails when v does not hold a width x height source image; otherwise the
\* image_width x image_height upscale, each output pixel sampled from the
\* source column it falls in.
ResizeLuma8(v, iw, ih, ow, oh) ==
    IF Len(v) < iw * ih \/ iw * ih = 0 THEN None
    ELSE Some([j \in 1..(ow * oh) |->
                 v[((((j - 1) % ow) * iw) \div ow) + 1]])

\* image::ImageBuffer::from_raw(w, h, buf): None when buf is too short.
FromRaw(w, h, buf) == IF Len(buf) < w * h THEN None ELSE Some(buf)

HasForeground(mask) == \E j \in 1..Len(mask) : Foreground(mask[j])

----------------------------------------------------------------------------
\* Contours as find_contours returns them.  hull is what
\* unclip(delta).resample(50).convex_hull() makes of the contour's polygon:
\* vertex count, area, and the extents of its bounding rectangle.
Contour(bt, n, npts, area, w, h, mbr) ==
    [border_type |-> bt, npoints |-> n,
     hull |-> [npts |-> npts, area |-> area, w |-> w, h |-> h, mbr |-> mbr]]

ContourKinds ==
    { Contour("Hole", 2, 4, 45, 12, 5, TRUE),     \* a degenerate hole
      Contour("Hole", 3, 4, 48, 12, 5, TRUE),     \* confidence 0.8
      Contour("Outer", 1, 1, 0, 0, 0, FALSE),     \* one pixel: no area
      Contour("Outer", 8, 6, 40, 11, 5, TRUE),    \* too narrow
      Contour("Outer", 8, 6, 60, 20, 4, TRUE),    \* too low
      Contour("Outer", 9, 7, 60, 20, 10, FALSE)   \* confidence 0.3, no mbr
    }

\* The first check without the border type.
DiscardedAnyShort(c) == c.npoints <= 2

\* The closure's first check (lines 121-125).
DiscardedEarly(c) == c.border_type = "Hole" /\ c.npoints <= 2

\* Polygon::default().with_points_imageproc(..).with_id(0), then
\* unclip / resample / convex_hull: the polygon of contour k.
RefinedPolygon(c, k) ==
    [id |-> 0, from |-> k, npts |-> c.hull.npts, area |-> c.hull.area,
     w |-> c.hull.w, h |-> c.hull.h, mbr |-> c.hull.mbr]

\* Polygon::verify: a polygon with fewer than 3 vertices or no area is
\* emptied.
Verify(p) ==
    IF p.npts < 3 \/ p.area <= 0
    THEN [p EXCEPT !.npts = 0, !.area = 0, !.w = 0, !.h = 0, !.mbr = FALSE]
    ELSE p

\* polygon.bbox(): the bounding rectangle, None for an empty polygon.
PolygonBbox(p) ==
    IF p.npts = 0 THEN None
    ELSE Some([w |-> p.w, h |-> p.h, id |-> -1, from |-> p.from,
               confidence |-> [num |-> 0, den |-> 1]])

\* polygon.mbr(): the minimum-area rectangle, when one exists.
PolygonMbr(p) ==
    IF p.mbr THEN Some([id |-> -1, from |-> p.from,
                        confidence |-> [num |-> 0, den |-> 1]])
    ELSE None

\* Exact ratios: a / b < c / d and a / b = c / d, denominators positive.
RatLt(a, b) == a.num * b.den < b.num * a.den
RatEq(a, b) == a.num * b.den = b.num * a.den

\* The size check with && for ||.
TooSmallBoth(bbox) == bbox.h < self.min_height /\ bbox.w < self.min_width

\* bbox.height() < self.min_height || bbox.width() < self.min_width
TooSmall(bbox) == bbox.h < self.min_height \/ bbox.w < self.min_width

\* The ratio taken the wrong way round.
ConfidenceInverse(polygon, bbox) ==
    [num |-> bbox.w * bbox.h, den |-> polygon.area]

\* polygon.area() as f32 / bbox.area()
Confidence(polygon, bbox) == [num |-> polygon.area, den |-> bbox.w * bbox.h]

\* confidence < self.confs[0]
BelowConf(confidence) ==
    RatLt(confidence, [num |-> self.confs0, den |-> 1000])

\* The closure of polygon.bbox().and_then (lines 141-155).
Accept(polygon, bbox) ==
    IF TooSmall(bbox) THEN None
    ELSE LET confidence == Confidence(polygon, bbox) IN
         IF BelowConf(confidence) THEN None
         ELSE LET bb == [bbox EXCEPT !.confidence = confidence, !.id = 0]
                  m == PolygonMbr(polygon)
                  mbr == IF m.some
                         THEN Some([m.val EXCEPT !.confidence = confidence,
                                                 !.id = 0])
                         ELSE None
              IN Some([polygon |-> polygon, bbox |-> bb, mbr |-> mbr])

\* The filter_map closure over the contours (lines 120-156).
FilterMapContour(c, k) ==
    IF DiscardedEarly(c) THEN None
    ELSE LET polygon == Verify(RefinedPolygon(c, k))
             bbox == PolygonBbox(polygon)
         IN IF bbox.some THEN Accept(polygon, bbox.val) ELSE None

\* The accumulator of fold and reduce: (Vec<Polygon>, Vec<Bbox>, Vec<Mbr>).
EmptyAcc == [polygons |-> <<>>, bboxes |-> <<>>, mbrs |-> <<>>]

\* A fold that pushes the box only together with a rotated box.
FoldOpBoxWithMbr(acc, item) ==
    [polygons |-> Append(acc.polygons, item.polygon),
     bboxes |-> IF item.mbr.some THEN Append(acc.bboxes, item.bbox)
                ELSE acc.bboxes,
     mbrs |-> IF item.mbr.some THEN Append(acc.mbrs, item.mbr.val)
              ELSE acc.mbrs]

\* fold's operation (lines 159-166).
FoldOp(acc, item) ==
    [polygons |-> Append(acc.polygons, item.polygon),
     bboxes |-> Append(acc.bboxes, item.bbox),
     mbrs |-> IF item.mbr.some THEN Append(acc.mbrs, item.mbr.val)
              ELSE acc.mbrs]

\* A reduce that extends the later accumulator with the earlier one.
ReduceOpSwapped(acc, other) ==
    [polygons |-> other.polygons \o acc.polygons,
     bboxes |-> other.bboxes \o acc.bboxes,
     mbrs |-> other.mbrs \o acc.mbrs]

\* reduce's operation (lines 170-175).
ReduceOp(acc, other) ==
    [polygons |-> acc.polygons \o other.polygons,
     bboxes |-> acc.bboxes \o other.bboxes,
     mbrs |-> acc.mbrs \o other.mbrs]

\* One contour through filter_map and fold.
FoldContour(acc, c, k) ==
    LET item == FilterMapContour(c, k)
    IN IF item.some THEN FoldOp(acc, item.val) ELSE acc

\* A left-to-right pass over contours cs[1..n].
RECURSIVE SeqFold(_, _)
SeqFold(cs, n) ==
    IF n = 0 THEN EmptyAcc ELSE FoldContour(SeqFold(cs, n - 1), cs[n], n)

\* Y::default().with_bboxes(..).with_polygons(..).with_mbrs(..)
MakeY(acc) ==
    [bboxes |-> acc.bboxes, polygons |-> acc.polygons, mbrs |-> acc.mbrs]

----------------------------------------------------------------------------
\* Specification Spec: one call of postprocess over a batch.

\* The tensors the inference engine may hand over: batch slices of len
\* pixels each, in standard layout or not.
Tensors ==
    UNION { { [batch |-> b, len |-> l, contiguous |-> c, data |-> d] :
                c \in BOOLEAN, d \in [1..b -> [1..l -> PixelValues]] } :
            b \in 0..MaxBatch, l \in 1..(DefaultSelf.width * DefaultSelf.height) }

TodoUnit == [state |-> "todo", v |-> <<>>, mask |-> <<>>, contours |-> <<>>,
             y |-> None]

Init ==
    /\ self \in {[DefaultSelf EXCEPT !.binary_thresh = t] : t \in Thresholds}
    /\ xs \in Tensors
    /\ image0s_size \in UNION {[1..m -> ImageSizes] : m \in 0..MaxBatch}
    /\ units = [i \in 1..xs.batch |-> TodoUnit]
    /\ order = <<>>
    /\ result = "running"
    /\ ys = <<>>
    /\ contours = <<>>
    /\ parts = <<>>
    /\ built = {}
    /\ y = None

\* What find_contours_with_threshold may return for a mask: nothing when no
\* byte is foreground, otherwise the borders of its regions, an outer border
\* among them.
FindContours(mask) ==
    IF ~HasForeground(mask) THEN {<<>>}
    ELSE { <<Contour("Outer", 9, 7, 60, 20, 10, FALSE)>>,
           <<Contour("Outer", 8, 6, 40, 11, 5, TRUE),
             Contour("Hole", 2, 4, 45, 12, 5, TRUE)>>,
           <<Contour("Outer", 9, 7, 60, 20, 10, FALSE),
             Contour("Hole", 3, 4, 48, 12, 5, TRUE)>> }

\* The record of one image from its contours (lines 118-183); every split of
\* the parallel fold gives the left-to-right result (SpecFold).
ImageRecord(cs) == MakeY(SeqFold(cs, Len(cs)))

\* A worker enters the closure of batch index idx (lines 82-90): it reads
\* the image's size and scale, takes the slice and starts the nested
\* parallel map over the pixels, or returns None at as_slice()?.
StartUnit(idx) ==
    /\ result = "running"
    /\ units[idx].state = "todo"
    /\ idx <= Len(image0s_size)
    /\ IF AsSlice(xs, idx).some
       THEN /\ units' = [units EXCEPT ![idx].state = "binarizing"]
            /\ order' = order
       ELSE /\ units' = [units EXCEPT ![idx].state = "dropped"]
            /\ order' = Append(order, idx)
    /\ UNCHANGED <<self, xs, image0s_size, result, ys>>
    /\ UNCHANGED foldVars

\* The pixel map has been collected (line 98): the closure resizes the
\* bytes, wraps them in an image buffer and extracts the contours (lines
\* 100-115), then starts the nested parallel contour loop; or it returns
\* None at .ok()? or from_raw(..)?.
MaskUnit(idx) ==
    /\ result = "running"
    /\ units[idx].state = "binarizing"
    /\ LET image_height == image0s_size[idx][1]
           image_width == image0s_size[idx][2]
           v == BinarizeSlice(AsSlice(xs, idx).val)
           luma == ResizeLuma8(v, self.width, self.height,
                               image_width, image_height)
           mask_im == FromRaw(image_width, image_height, luma.val)
       IN IF luma.some /\ mask_im.some
          THEN /\ \E cs \in FindContours(mask_im.val) :
                    units' = [units EXCEPT ![idx].state = "folding",
                                           ![idx].v = v,
                                           ![idx].mask = mask_im.val,
                                           ![idx].contours = cs]
               /\ order' = order
          ELSE /\ units' = [units EXCEPT ![idx].state = "dropped",
                                         ![idx].v = v]
               /\ order' = Append(order, idx)
    /\ UNCHANGED <<self, xs, image0s_size, result, ys>>
    /\ UNCHANGED foldVars

\* The contour loop has been reduced (line 176): the closure builds the
\* image's record and returns Some of it (lines 178-183).
FinishUnit(idx) ==
    /\ result = "running"
    /\ units[idx].state = "folding"
    /\ units' = [units EXCEPT
                   ![idx].state = "done",
                   ![idx].y = Some([idx |-> idx,
                                    y |-> ImageRecord(units[idx].contours)])]
    /\ order' = Append(order, idx)
    /\ UNCHANGED <<self, xs, image0s_size, result, ys>>
    /\ UNCHANGED foldVars

\* self.processor.image0s_size[idx] with idx past the recorded images: the
\* index panics and the panic leaves postprocess.
PanicUnit(idx) ==
    /\ result = "running"
    /\ units[idx].state = "todo"
    /\ idx > Len(image0s_size)
    /\ result' = "panic"
    /\ UNCHANGED <<self, xs, image0s_size, units, order, ys>>
    /\ UNCHANGED foldVars

\* A collect that appends the records as their units complete.
CollectByCompletion(us, done) ==
    LET kept == SelectSeq(done, LAMBDA i : us[i].y.some)
    IN [k \in 1..Len(kept) |-> us[kept[k]].y.val]

\* filter_map(..).collect::<Vec<Y>>(): the Some results in index order.
CollectVec(us, done) ==
    LET idxs == [i \in 1..Len(us) |-> i]
        kept == SelectSeq(idxs, LAMBDA i : us[i].y.some)
    IN [k \in 1..Len(kept) |-> us[kept[k]].y.val]

\* Every unit has ended: collect, and return Ok(ys.into()).
Collect ==
    /\ result = "running"
    /\ \A i \in 1..xs.batch : units[i].state \in {"done", "dropped"}
    /\ ys' = CollectVec(units, order)
    /\ result' = "ok"
    /\ UNCHANGED <<self, xs, image0s_size, units, order>>
    /\ UNCHANGED foldVars

Next ==
    \/ \E idx \in 1..xs.batch : StartUnit(idx)
    \/ \E idx \in 1..xs.batch : MaskUnit(idx)
    \/ \E idx \in 1..xs.batch : FinishUnit(idx)
    \/ \E idx \in 1..xs.batch : PanicUnit(idx)
    \/ Collect

Spec == Init /\ [][Next]_vars

----------------------------------------------------------------------------
\* Specification SpecFold: the contour loop of one image (lines 118-183).
\* A part is a chunk lo..hi of the contour list with its fold accumulator;
\* next is the contour the chunk's fold takes next, merges counts the
\* reduce operations that built the part.

Part(lo, hi) ==
    [lo |-> lo, hi |-> hi, next |-> lo, acc |-> EmptyAcc, merges |-> 0]

Finished(part) == part.next > part.hi

ReplaceParts(p, n, new) ==
    SubSeq(parts, 1, p - 1) \o new \o SubSeq(parts, p + n, Len(parts))

InitFold ==
    /\ self \in {[DefaultSelf EXCEPT !.confs0 = c] : c \in ConfThresholds}
    /\ contours \in UNION {[1..n -> ContourKinds] : n \in 0..MaxContours}
    /\ parts = <<Part(1, Len(contours))>>
    /\ built = {}
    /\ y = None
    /\ xs = [batch |-> 0, len |-> 0, contiguous |-> TRUE, data |-> <<>>]
    /\ image0s_size = <<>>
    /\ units = <<>>
    /\ order = <<>>
    /\ result = "running"
    /\ ys = <<>>

\* par_iter() splits a chunk no worker has started into two.
Split(p, mid) ==
    /\ ~y.some
    /\ parts[p].next = parts[p].lo
    /\ parts[p].lo <= mid /\ mid < parts[p].hi
    /\ parts' = ReplaceParts(p, 1, <<Part(parts[p].lo, mid),
                                     Part(mid + 1, parts[p].hi)>>)
    /\ UNCHANGED <<self, contours, built, y>>
    /\ UNCHANGED batchVars

\* A worker takes the next contour of its chunk through filter_map and fold.
FoldStep(p) ==
    /\ ~y.some
    /\ ~Finished(parts[p])
    /\ LET k == parts[p].next
           c == contours[k]
       IN /\ parts' = [parts EXCEPT ![p].next = k + 1,
                                    ![p].acc = FoldContour(@, c, k)]
          /\ built' = IF DiscardedEarly(c) THEN built ELSE built \cup {k}
    /\ UNCHANGED <<self, contours, y>>
    /\ UNCHANGED batchVars

\* reduce joins the accumulators of two adjacent folded chunks.
Reduce(p) ==
    /\ ~y.some
    /\ p < Len(parts)
    /\ Finished(parts[p]) /\ Finished(parts[p + 1])
    /\ parts' = ReplaceParts(p, 2,
                  <<[lo |-> parts[p].lo, hi |-> parts[p + 1].hi,
                     next |-> parts[p + 1].hi + 1,
                     acc |-> ReduceOp(parts[p].acc, parts[p + 1].acc),
                     merges |-> parts[p].merges + parts[p + 1].merges + 1]>>)
    /\ UNCHANGED <<self, contours, built, y>>
    /\ UNCHANGED batchVars

\* The reduced accumulator becomes the image's record (lines 178-183).
Emit ==
    /\ ~y.some
    /\ Len(parts) = 1
    /\ Finished(parts[1])
    /\ y' = Some(MakeY(parts[1].acc))
    /\ UNCHANGED <<self, contours, parts, built>>
    /\ UNCHANGED batchVars

NextFold ==
    \/ \E p \in 1..Len(parts) : \E mid \in 1..MaxContours : Split(p, mid)
    \/ \E p \in 1..Len(parts) : FoldStep(p)
    \/ \E p \in 1..Len(parts) : Reduce(p)
    \/ Emit

SpecFold == InitFold /\ [][NextFold]_vars

----------------------------------------------------------------------------
\* Properties of Spec.

EmptyY == [bboxes |-> <<>>, polygons |-> <<>>, mbrs |-> <<>>]

\* The tensor's axes do not fit the model geometry or the input batch.
Malformed ==
    \/ xs.len # self.width * self.height
    \/ xs.batch # Len(image0s_size)

AllBackground(idx) ==
    \A p \in 1..xs.len : xs.data[idx][p] <= self.binary_thresh

\* C1: a batch of N images comes back as exactly N records, record i decoded
\* from image i, also when an image's slice, resize or buffer fails.
C1_OneRecordPerImage ==
    result = "ok" =>
        /\ Len(ys) = xs.batch
        /\ \A i \in 1..Len(ys) : ys[i].idx = i

\* C2: the returned records are in the relative order of their images,
\* whatever order the workers completed in.
C2_BatchOrderPreserved ==
    result = "ok" =>
        \A a, b \in 1..Len(ys) : a < b => ys[a].idx < ys[b].idx

\* Two records returned although the second image's unit completed first.
C2_Witness ==
    /\ result = "ok"
    /\ xs.batch = 2
    /\ Len(ys) >= 2
    /\ Len(order) >= 2
    /\ order[1] > order[2]

\* C3: for a batch of one image or more, a non-empty tensor of malformed
\* shape never ends in Ok: the call fails, and no result for only some of the
\* images is returned.
C3_MalformedIsFatal ==
    (/\ Malformed
     /\ Len(image0s_size) >= 1
     /\ xs.batch >= 1
     /\ result # "running") =>
        /\ result # "ok"
        /\ ~(result = "ok" /\ Len(ys) < Len(image0s_size))

\* C6: an image of a well-shaped tensor whose pixels are all at or below
\* binary_thresh has zero contours and an empty record in the result.
C6_AllBackgroundEmptyRecord ==
    (result = "ok" /\ ~Malformed) =>
        \A idx \in 1..xs.batch :
            AllBackground(idx) =>
                /\ units[idx].state = "done"
                /\ units[idx].contours = <<>>
                /\ \E k \in 1..Len(ys) :
                       ys[k].idx = idx /\ ys[k].y = EmptyY

\* C8: in every image that reaches contour extraction, a pixel is foreground
\* exactly when its value is strictly greater than binary_thresh.
C8_ForegroundIffAboveThresh ==
    \A idx \in 1..xs.batch :
        units[idx].state \in {"folding", "done"} =>
            \A p \in 1..Len(units[idx].v) :
                Foreground(units[idx].v[p])
                    <=> (xs.data[idx][p] > self.binary_thresh)

----------------------------------------------------------------------------
\* Properties of SpecFold.

NContours == Len(contours)

IsShortHole(c) == c.border_type = "Hole" /\ c.npoints <= 2

\* The refined polygon of c is a polygon: it has a bounding box.
HullValid(c) == c.hull.npts >= 3 /\ c.hull.area > 0

\* height >= min_height, width >= min_width, area / bbox area >= confs[0].
MeetsFloors(c) ==
    /\ c.hull.h >= self.min_height
    /\ c.hull.w >= self.min_width
    /\ c.hull.area * 1000 >= self.confs0 * c.hull.w * c.hull.h

Froms(list) == {list[j].from : j \in 1..Len(list)}

InAnyList(acc, k) ==
    k \in Froms(acc.polygons) \cup Froms(acc.bboxes) \cup Froms(acc.mbrs)

\* C4: a refined candidate is in the record exactly when its box meets the
\* height and width floors and its confidence the class-0 threshold; every
\* box of the record meets all three.
C4_AcceptedIffFloors ==
    y.some =>
        /\ \A j \in 1..Len(y.val.bboxes) :
              LET b == y.val.bboxes[j] IN
              /\ b.w >= self.min_width
              /\ b.h >= self.min_height
              /\ b.confidence.den > 0
              /\ b.confidence.num * 1000 >= self.confs0 * b.confidence.den
        /\ \A k \in 1..NContours :
              (~IsShortHole(contours[k]) /\ HullValid(contours[k])) =>
                  (k \in Froms(y.val.bboxes) <=> MeetsFloors(contours[k]))

\* A box exactly on both size floors is in the record, and a refined
\* candidate below a floor is not.
C4_Witness ==
    /\ y.some
    /\ \E j \in 1..Len(y.val.bboxes) :
          /\ y.val.bboxes[j].w = self.min_width
          /\ y.val.bboxes[j].h = self.min_height
    /\ \E k \in 1..NContours :
          /\ ~IsShortHole(contours[k]) /\ HullValid(contours[k])
          /\ k \notin Froms(y.val.bboxes)

\* C5: the confidence on every box is its polygon's area over the area of
\* its bounding box, and a rotated box of the same polygon carries the same
\* confidence and class id 0.
C5_ConfidenceIsFillRatio ==
    y.some =>
        /\ \A j \in 1..Len(y.val.bboxes) :
              LET b == y.val.bboxes[j]
                  c == contours[b.from]
              IN /\ b.id = 0
                 /\ b.confidence.den > 0
                 /\ b.confidence.num * (c.hull.w * c.hull.h)
                        = c.hull.area * b.confidence.den
        /\ \A m \in 1..Len(y.val.mbrs) :
              LET r == y.val.mbrs[m] IN
              /\ r.id = 0
              /\ \E j \in 1..Len(y.val.bboxes) :
                    /\ y.val.bboxes[j].from = r.from
                    /\ RatEq(r.confidence, y.val.bboxes[j].confidence)

\* A record with a rotated box and a box of confidence below 1.
C5_Witness ==
    /\ y.some
    /\ Len(y.val.mbrs) >= 1
    /\ \E j \in 1..Len(y.val.bboxes) :
          y.val.bboxes[j].confidence.num < y.val.bboxes[j].confidence.den

\* C7: however the contour list is split, folded and reduced, the record's
\* polygons and boxes are those of one left-to-right pass, in contour order.
C7_FoldOrderIsSequential ==
    y.some =>
        /\ y.val.polygons = SeqFold(contours, NContours).polygons
        /\ y.val.bboxes = SeqFold(contours, NContours).bboxes
        /\ \A a, b \in 1..Len(y.val.polygons) :
              a < b => y.val.polygons[a].from < y.val.polygons[b].from
        /\ \A a, b \in 1..Len(y.val.bboxes) :
              a < b => y.val.bboxes[a].from < y.val.bboxes[b].from

\* A record of two polygons or more that went through a reduce.
C7_Witness ==
    /\ y.some
    /\ parts[1].merges >= 1
    /\ Len(y.val.polygons) >= 2

\* C9: a contour is discarded before a polygon is built from it exactly when
\* it is a hole of at most 2 points; it then contributes nothing, and every
\* other contour enters the refinement.
C9_ShortHolesDiscarded ==
    y.some =>
        \A k \in 1..NContours :
            /\ (k \notin built) <=> IsShortHole(contours[k])
            /\ (k \notin built) => ~InAnyList(y.val, k)

\* A short hole was discarded while a 3-point hole and an outer border of
\* at most 2 points were refined.
C9_Witness ==
    /\ y.some
    /\ \E k \in 1..NContours : k \notin built
    /\ \E k \in built :
          contours[k].border_type = "Hole" /\ contours[k].npoints = 3
    /\ \E k \in built :
          contours[k].border_type = "Outer" /\ contours[k].npoints <= 2

\* The three lists of an accumulator are consistent.
ListsAligned(acc) ==
    /\ Len(acc.polygons) = Len(acc.bboxes)
    /\ \A j \in 1..Len(acc.polygons) :
          /\ acc.bboxes[j].from = acc.polygons[j].from
          /\ acc.bboxes[j].w = acc.polygons[j].w
          /\ acc.bboxes[j].h = acc.polygons[j].h
    /\ Len(acc.mbrs) <= Len(acc.polygons)
    /\ Froms(acc.mbrs) \subseteq Froms(acc.polygons)

\* C10: in every record, and in every accumulator on the way to it, the
\* k-th box is the bounding box of the k-th polygon, there are no more
\* rotated boxes than polygons, and a rejected candidate is in no list.
C10_ListsAligned ==
    /\ \A p \in 1..Len(parts) :
          /\ ListsAligned(parts[p].acc)
          /\ \A k \in 1..NContours :
                ( \/ IsShortHole(contours[k])
                  \/ ~HullValid(contours[k])
                  \/ ~MeetsFloors(contours[k]) )
                    => ~InAnyList(parts[p].acc, k)
    /\ y.some =>
          /\ ListsAligned(y.val)
          /\ \A k \in 1..NContours :
                ( \/ IsShortHole(contours[k])
                  \/ ~HullValid(contours[k])
                  \/ ~MeetsFloors(contours[k]) )
                    => ~InAnyList(y.val, k)

\* A record with fewer rotated boxes than polygons and a candidate rejected
\* at each of the checks.
C10_Witness ==
    /\ y.some
    /\ Len(y.val.polygons) >= 1
    /\ Len(y.val.mbrs) < Len(y.val.polygons)
    /\ \E k \in 1..NContours : ~InAnyList(y.val, k)

====
